---- MODULE Spec2Model ----
(***************************************************************************)
(* Tenflix: the hybrid retrieval engine of the movie RAG backend.          *)
(*                                                                         *)
(*   backend/app/vector_database.py   MovieVectorDB (query_similar,        *)
(*                                    hybrid_search)                       *)
(*   backend/app/rag_system.py        MovieRAGSystem (_parse_user_intent,  *)
(*                                    _construct_vector_query,             *)
(*                                    answer_question, get_recommendations,*)
(*                                    compare_titles, query_llm,           *)
(*                                    _log_usage, export_usage_log)        *)
(*   backend/app/routers/movies.py    search_movies and the handlers that  *)
(*                                    share one MovieRAGSystem             *)
(*                                                                         *)
(* Python values are represented as follows.                               *)
(*   str            a TLA+ string (Len, SubSeq and \o act on it)           *)
(*   list           a sequence                                             *)
(*   Optional[x] /  a set with at most one element: {} is None or a        *)
(*   absent key     missing dictionary key, {v} is the value v             *)
(*   result dict    a record [nested, ids, documents, metadatas,           *)
(*                  distances]; nested = TRUE is the shape                 *)
(*                  {"ids": [[...]], ...} of a chromadb query result,      *)
(*                  nested = FALSE the flat shape {"ids": [...], ...}      *)
(*   call outcome   a record [raised, value]                               *)
(***************************************************************************)
EXTENDS Integers, Sequences, FiniteSets, TLC

VARIABLES
    corpus,            \* the collection, as ids ranked by ascending distance to the query
    usage_log,         \* MovieRAGSystem.usage_log
    pc,                \* position of the request being served
    op,                \* the operation being served
    n_results,         \* its n_results argument
    excluded_titles,   \* its excluded_titles argument (get_recommendations)
    titles,            \* its titles argument (compare_titles)
    llm_calls,         \* the calls issued to the OpenAI client by this request
    intent_data,       \* the parsed intent (Optional)
    vector_query,      \* what _construct_vector_query returned (Optional)
    store_calls,       \* the calls issued to the chromadb collection by this request
    store_failed,      \* TRUE when one of them raised
    results,           \* the result dict the retrieval operation returned (Optional)
    documents,         \* the documents extracted from it
    metadatas,         \* the metadatas extracted from it
    response,          \* the string returned to the caller (Optional)
    raised,            \* TRUE when an exception left the operation
    export_file,       \* what export_usage_log last wrote to its file (Optional)
    threads            \* the requests served concurrently, one record per thread

storeVars == <<corpus>>
requestVars == <<pc, op, n_results, excluded_titles, titles>>
retrievalVars == <<intent_data, vector_query, store_calls, store_failed, results>>
ragVars == <<usage_log, llm_calls, documents, metadatas, response>>
serverVars == <<export_file, threads>>
vars == <<storeVars, requestVars, retrievalVars, ragVars, raised, serverVars>>

\* ------------------------------------------------------------------ bounds

MaxCorpus == 4
MaxN == 2
MaxLog == 1
MaxThreads == 2

\* ------------------------------------------------------- Python primitives

Min(a, b) == IF a <= b THEN a ELSE b

UpperCase == "ABCDEFGHIJKLMNOPQRSTUVWXYZ"
LowerCase == "abcdefghijklmnopqrstuvwxyz"
Digits == "0123456789"

CharAt(s, i) == SubSeq(s, i, i)

IndexIn(alphabet, c) ==
    IF \E i \in 1..Len(alphabet) : CharAt(alphabet, i) = c
    THEN CHOOSE i \in 1..Len(alphabet) : CharAt(alphabet, i) = c
    ELSE 0

UpperChars == {CharAt(UpperCase, i) : i \in 1..Len(UpperCase)}
LowerOf == [c \in UpperChars |-> CharAt(LowerCase, IndexIn(UpperCase, c))]

LowerChar(c) == IF c \in UpperChars THEN LowerOf[c] ELSE c

\* str.lower()
RECURSIVE lower(_)
lower(s) ==
    IF Len(s) = 0 THEN "" ELSE LowerChar(CharAt(s, 1)) \o lower(SubSeq(s, 2, Len(s)))

\* a in b, for strings
In(a, b) ==
    \E i \in 1..(Len(b) - Len(a) + 1) : SubSeq(b, i, i + Len(a) - 1) = a

IsSpace(c) == c = " "

\* str.strip()
RECURSIVE lstrip(_)
lstrip(s) ==
    IF Len(s) > 0 /\ IsSpace(CharAt(s, 1)) THEN lstrip(SubSeq(s, 2, Len(s))) ELSE s

RECURSIVE rstrip(_)
rstrip(s) ==
    IF Len(s) > 0 /\ IsSpace(CharAt(s, Len(s))) THEN rstrip(SubSeq(s, 1, Len(s) - 1)) ELSE s

strip(s) == rstrip(lstrip(s))

\* s.split(sep), sep a single character
RECURSIVE split(_, _)
split(s, sep) ==
    IF \E i \in 1..Len(s) : CharAt(s, i) = sep
    THEN LET i == CHOOSE i \in 1..Len(s) :
                      /\ CharAt(s, i) = sep
                      /\ \A j \in 1..(i - 1) : CharAt(s, j) # sep
         IN <<SubSeq(s, 1, i - 1)>> \o split(SubSeq(s, i + 1, Len(s)), sep)
    ELSE <<s>>

\* sep.join(list)
RECURSIVE join(_, _)
join(sep, list) ==
    IF Len(list) = 0 THEN ""
    ELSE IF Len(list) = 1 THEN list[1]
    ELSE list[1] \o sep \o join(sep, Tail(list))

IsDigitString(s) ==
    Len(s) > 0 /\ \A i \in 1..Len(s) : IndexIn(Digits, CharAt(s, i)) > 0

RECURSIVE DigitsValue(_)
DigitsValue(s) ==
    IF Len(s) = 0 THEN 0
    ELSE 10 * DigitsValue(SubSeq(s, 1, Len(s) - 1)) + (IndexIn(Digits, CharAt(s, Len(s))) - 1)

\* int(s): {} when it raises ValueError, else {the value}.  Surrounding blanks
\* and one leading sign are accepted, as Python does.
int(s) ==
    LET t == strip(s)
        signed == Len(t) > 0 /\ CharAt(t, 1) \in {"+", "-"}
        body == IF signed THEN SubSeq(t, 2, Len(t)) ELSE t
    IN IF ~IsDigitString(body) THEN {}
       ELSE IF signed /\ CharAt(t, 1) = "-" THEN {0 - DigitsValue(body)}
       ELSE {DigitsValue(body)}

\* str(n) for an int
RECURSIVE NatStr(_)
NatStr(n) ==
    IF n < 10 THEN CharAt(Digits, n + 1)
    ELSE NatStr(n \div 10) \o CharAt(Digits, (n % 10) + 1)

str(n) == IF n < 0 THEN "-" \o NatStr(0 - n) ELSE NatStr(n)

\* ---------------------------------------------------------------- corpus

\* The records of the collection: metadata as populate_vector_db stores it.
Catalogue == <<
    [title |-> "Matrix", year |-> "1999", genres |-> "Action, Sci-Fi",
     directors |-> "Wachowski", cast |-> "Keanu Reeves"],
    [title |-> "Serenity", year |-> "2005", genres |-> "SCIENCE FICTION",
     directors |-> "Joss Whedon", cast |-> "Nathan Fillion"],
    [title |-> "Sherlock", year |-> "2010-2012", genres |-> "Drama, Comedy",
     directors |-> "Paul McGuigan", cast |-> "Martin Freeman"],
    [title |-> "Hannibal", year |-> "2012-2015", genres |-> "",
     directors |-> "", cast |-> ""],
    [title |-> "Inception", year |-> "", genres |-> "Sci Fi, Drama",
     directors |-> "Christopher Nolan", cast |-> "Tom Hardy, Elliot Page"]
>>

DocIds == 1..Len(Catalogue)

\* Every ranking of at most MaxCorpus distinct records.
Rankings ==
    UNION {{s \in [1..k -> DocIds] : \A i, j \in 1..k : i # j => s[i] # s[j]} :
           k \in 0..Min(MaxCorpus, Len(Catalogue))}

\* ------------------------------------------------ _construct_vector_query

None == {}
Some(v) == {v}
Get(o) == CHOOSE v \in o : TRUE

\* Truthiness of an Optional list, of an Optional str and of an Optional int.
TruthyList(o) == o # None /\ Len(Get(o)) > 0
TruthyStr(o) == o # None /\ Len(Get(o)) > 0
TruthyInt(o) == o # None /\ Get(o) # 0

\* intent_data["filters"] with none of the keys the code reads (the dict {}).
NoIntentFilters ==
    [genres |-> None, year_range |-> None, directors |-> None, actors |-> None]

\* bool(filters) of the compiled dict
FiltersTruthy(f) ==
    f.genres # None \/ f.year # None \/ f.directors # None \/ f.cast # None

\* The "year" entry: [raised, value]; raised is the IndexError of year_range[1]
\* on a list of one element.
YearFilter(intent_filters) ==
    IF ~TruthyList(intent_filters.year_range)
    THEN [raised |-> FALSE, value |-> None]
    ELSE LET year_range == Get(intent_filters.year_range)
         IN IF Len(year_range) = 2 /\ TruthyInt(year_range[1]) /\ TruthyInt(year_range[2])
            THEN [raised |-> FALSE,
                  value |-> Some([gte |-> Some(str(Get(year_range[1]))),
                                  lte |-> Some(str(Get(year_range[2])))])]
            ELSE IF TruthyInt(year_range[1])
            THEN [raised |-> FALSE,
                  value |-> Some([gte |-> Some(str(Get(year_range[1]))), lte |-> None])]
            ELSE IF Len(year_range) < 2
            THEN [raised |-> TRUE, value |-> None]
            ELSE IF TruthyInt(year_range[2])
            THEN [raised |-> FALSE,
                  value |-> Some([gte |-> None, lte |-> Some(str(Get(year_range[2])))])]
            ELSE [raised |-> FALSE, value |-> None]

ContainsFilter(list) ==
    IF TruthyList(list) THEN Some([contains |-> join("|", Get(list))]) ELSE None

\* _construct_vector_query(intent_data): [raised, value], value = [query_text, filters]
construct_vector_query(intent) ==
    LET search_query == IF intent.search_query = None THEN ""
                        ELSE Get(intent.search_query)
        intent_filters == IF intent.filters = None THEN NoIntentFilters
                          ELSE Get(intent.filters)
        year == YearFilter(intent_filters)
        filters == [genres |-> ContainsFilter(intent_filters.genres),
                    year |-> year.value,
                    directors |-> ContainsFilter(intent_filters.directors),
                    cast |-> ContainsFilter(intent_filters.actors)]
    IN [raised |-> year.raised,
        value |-> [query_text |-> search_query,
                   filters |-> IF FiltersTruthy(filters) THEN Some(filters) ELSE None]]

\* ------------------------------------------------------ the chromadb store

\* collection.query(query_texts=[q], n_results=k) on the collection ranked c: the
\* min(k, count) nearest, nested one level (one inner list per query text).  A
\* document's text is represented by its id, its distance by its rank.
StoreQuery(c, k) ==
    LET m == Min(k, Len(c))
    IN [nested |-> TRUE,
        ids |-> [i \in 1..m |-> c[i]],
        documents |-> [i \in 1..m |-> c[i]],
        metadatas |-> [i \in 1..m |-> Catalogue[c[i]]],
        distances |-> [i \in 1..m |-> i]]

\* {"ids": [], "documents": [], "metadatas": [], "distances": []}
FlatEmpty ==
    [nested |-> FALSE, ids |-> <<>>, documents |-> <<>>, metadatas |-> <<>>,
     distances |-> <<>>]

\* {"ids": [[]], "documents": [[]], "metadatas": [[]], "distances": [[]]}
NestedEmpty ==
    [nested |-> TRUE, ids |-> <<>>, documents |-> <<>>, metadatas |-> <<>>,
     distances |-> <<>>]

\* ------------------------------------------------------------ query_similar

\* query_similar(query_text, n_results) on the collection ranked c:
\* [raised, value, calls].  fail = "query" is collection.query raising.
query_similar(c, n, fail) ==
    IF fail = "query"
    THEN [raised |-> FALSE, value |-> FlatEmpty, calls |-> <<[call |-> "query", n |-> n]>>]
    ELSE [raised |-> FALSE, value |-> StoreQuery(c, n), calls |-> <<[call |-> "query", n |-> n]>>]

\* ------------------------------------------------------------ hybrid_search

sci_fi_terms == <<"sci-fi", "science fiction", "scifi", "sci fi">>

\* genre_match without the sci-fi variations: every requested genre is matched
\* literally.
genre_match_literal(filter_genres, genres_lower) ==
    LET parts == split(filter_genres, "|")
    IN \E g \in 1..Len(parts) : In(lower(strip(parts[g])), genres_lower)

\* genre_match of hybrid_search, for the lowered "$contains" value and the
\* lowered genres field.
genre_match(filter_genres, genres_lower) ==
    IF In("sci-fi", filter_genres)
    THEN \E t \in 1..Len(sci_fi_terms) : In(sci_fi_terms[t], genres_lower)
    ELSE LET parts == split(filter_genres, "|")
         IN \E g \in 1..Len(parts) : In(lower(strip(parts[g])), genres_lower)

\* The genres block: FALSE when it sets include = False.
GenreInclude(f, meta) ==
    IF f.genres # None /\ Len(meta.genres) > 0
    THEN genre_match(lower(Get(f.genres).contains), lower(meta.genres))
    ELSE TRUE

\* The year block with both comparisons made exclusive (<= and >= in place of
\* < and >).
YearInclude_exclusive(f, meta) ==
    IF f.year = None \/ Len(meta.year) = 0 THEN TRUE
    ELSE LET y == Get(f.year)
             item_year == IF In("-", meta.year) THEN int(split(meta.year, "-")[1])
                          ELSE int(meta.year)
         IN IF (y.gte = None /\ y.lte = None) \/ item_year = None THEN TRUE
            ELSE LET gte == IF TruthyStr(y.gte) THEN int(Get(y.gte)) ELSE None
                     lte == IF TruthyStr(y.lte) THEN int(Get(y.lte)) ELSE None
                     gteRaises == TruthyStr(y.gte) /\ gte = None
                     belowGte == gte # None /\ Get(item_year) <= Get(gte)
                     aboveLte == ~gteRaises /\ lte # None /\ Get(item_year) >= Get(lte)
                 IN ~belowGte /\ ~aboveLte

\* The year block with its try/except: FALSE when it sets include = False.  A
\* ValueError leaves the block; what was decided before it stays.
YearInclude(f, meta) ==
    IF f.year = None \/ Len(meta.year) = 0 THEN TRUE
    ELSE LET y == Get(f.year)
             item_year == IF In("-", meta.year) THEN int(split(meta.year, "-")[1])
                          ELSE int(meta.year)
         IN IF (y.gte = None /\ y.lte = None) \/ item_year = None THEN TRUE
            ELSE LET gte == IF TruthyStr(y.gte) THEN int(Get(y.gte)) ELSE None
                     lte == IF TruthyStr(y.lte) THEN int(Get(y.lte)) ELSE None
                     gteRaises == TruthyStr(y.gte) /\ gte = None
                     belowGte == gte # None /\ Get(item_year) < Get(gte)
                     aboveLte == ~gteRaises /\ lte # None /\ Get(item_year) > Get(lte)
                 IN ~belowGte /\ ~aboveLte

\* `include` after the loop body, for one candidate
Include(f, meta) == GenreInclude(f, meta) /\ YearInclude(f, meta)

\* n_results * 3, the number of candidates hybrid_search asks for
OverfetchFactor == 3

\* An over-fetch of 2 * n_results
OverfetchCount_twice(n) == n * 2

OverfetchCount(n) == n * OverfetchFactor

\* filtered_indices built farthest candidate first
filtered_indices_reversed(f, candidates) ==
    SelectSeq([i \in 1..Len(candidates.ids) |-> Len(candidates.ids) + 1 - i],
              LAMBDA i : Include(f, candidates.metadatas[i]))

\* filtered_indices: the positions of the candidates kept, in candidate order
filtered_indices(f, candidates) ==
    SelectSeq([i \in 1..Len(candidates.ids) |-> i],
              LAMBDA i : Include(f, candidates.metadatas[i]))

\* The "Limit to requested number" slices
Truncate(list, n) == SubSeq(list, 1, Min(n, Len(list)))

\* [list[i] for i in filtered_indices]
Pick(list, idx) == [k \in 1..Len(idx) |-> list[idx[k]]]

\* The envelope built from filtered_indices
FilteredEnvelope(idx, candidates, n) ==
    IF Len(idx) > 0
    THEN [nested |-> TRUE,
          ids |-> Truncate(Pick(candidates.ids, idx), n),
          documents |-> Truncate(Pick(candidates.documents, idx), n),
          metadatas |-> Truncate(Pick(candidates.metadatas, idx), n),
          distances |-> Truncate(Pick(candidates.distances, idx), n)]
    ELSE NestedEmpty

Filtered(f, candidates, n) ==
    FilteredEnvelope(filtered_indices(f, candidates), candidates, n)

\* What hybrid_search returns once collection.query has answered
AfterQuery(filters, candidates, n) ==
    IF filters # None /\ FiltersTruthy(Get(filters)) /\ Len(candidates.ids) > 0
    THEN Filtered(Get(filters), candidates, n)
    ELSE candidates

\* hybrid_search with collection.count() called before the try block: its
\* exception leaves the method.
hybrid_search_count_unguarded(c, filters, n, fail) ==
    LET count == [call |-> "count", n |-> 0]
        get == [call |-> "get", n |-> 1]
        query == [call |-> "query", n |-> OverfetchCount(n)]
    IN IF fail = "count"
       THEN [raised |-> TRUE, value |-> NestedEmpty, calls |-> <<count>>]
       ELSE IF fail \in {"get", "query"}
       THEN [raised |-> FALSE, value |-> NestedEmpty,
             calls |-> IF fail = "get" THEN <<count, get>> ELSE <<count, get, query>>]
       ELSE [raised |-> FALSE,
             value |-> AfterQuery(filters, StoreQuery(c, OverfetchCount(n)), n),
             calls |-> <<count, get, query>>]

\* hybrid_search that queries a second time, for three times as many candidates,
\* when the filters leave none of the first candidates.
hybrid_search_retry(c, filters, n, fail) ==
    LET count == [call |-> "count", n |-> 0]
        get == [call |-> "get", n |-> 1]
        query == [call |-> "query", n |-> OverfetchCount(n)]
        again == [call |-> "query", n |-> OverfetchCount(OverfetchCount(n))]
        first == AfterQuery(filters, StoreQuery(c, OverfetchCount(n)), n)
    IN IF fail = "count"
       THEN [raised |-> FALSE, value |-> NestedEmpty, calls |-> <<count>>]
       ELSE IF fail = "get"
       THEN [raised |-> FALSE, value |-> NestedEmpty, calls |-> <<count, get>>]
       ELSE IF fail = "query"
       THEN [raised |-> FALSE, value |-> NestedEmpty, calls |-> <<count, get, query>>]
       ELSE IF Len(c) > 0 /\ Len(first.ids) = 0
       THEN [raised |-> FALSE,
             value |-> AfterQuery(filters,
                                  StoreQuery(c, OverfetchCount(OverfetchCount(n))), n),
             calls |-> <<count, get, query, again>>]
       ELSE [raised |-> FALSE, value |-> first, calls |-> <<count, get, query>>]

\* hybrid_search(query_text, metadata_filters, n_results) on the collection ranked
\* c: [raised, value, calls].  fail names the store call that raises:
\* collection.count(), collection.get(limit=1), collection.query(...), or none.
hybrid_search(c, filters, n, fail) ==
    LET count == [call |-> "count", n |-> 0]
        get == [call |-> "get", n |-> 1]
        query == [call |-> "query", n |-> OverfetchCount(n)]
    IN IF fail = "count"
       THEN [raised |-> FALSE, value |-> NestedEmpty, calls |-> <<count>>]
       ELSE IF fail = "get"
       THEN [raised |-> FALSE, value |-> NestedEmpty, calls |-> <<count, get>>]
       ELSE IF fail = "query"
       THEN [raised |-> FALSE, value |-> NestedEmpty, calls |-> <<count, get, query>>]
       ELSE [raised |-> FALSE,
             value |-> AfterQuery(filters, StoreQuery(c, OverfetchCount(n)), n),
             calls |-> <<count, get, query>>]

\* ------------------------------------------------------------- the inputs

GenresOnly(list) == [NoIntentFilters EXCEPT !.genres = Some(list)]
YearsOnly(list) == [NoIntentFilters EXCEPT !.year_range = Some(list)]

\* The intent filters the language model is taken to deliver.
IntentFilterChoices ==
    {GenresOnly(<<"sci-fi">>), GenresOnly(<<"science fiction">>),
     GenresOnly(<<"scifi">>), GenresOnly(<<"sci fi">>),
     GenresOnly(<<"Drama">>), GenresOnly(<<"sci-fi", "drama">>),
     YearsOnly(<<Some(2000), Some(2010)>>), YearsOnly(<<Some(2000), None>>),
     [NoIntentFilters EXCEPT !.directors = Some(<<"nolan">>)],
     [NoIntentFilters EXCEPT !.actors = Some(<<"reeves", "fillion">>)],
     [NoIntentFilters EXCEPT !.genres = Some(<<"sci-fi">>),
                             !.year_range = Some(<<Some(2000), Some(2010)>>)],
     NoIntentFilters}

Intent(type, filters, search_query) ==
    [type |-> Some(type), filters |-> Some(filters), search_query |-> Some(search_query)]

UserQuery == "find me a movie"

StoreFailures == {"none", "count", "get", "query"}

\* ------------------------------------------------- the retrieval operations

Idle ==
    /\ pc = "idle"
    /\ op = "none"
    /\ n_results = 0
    /\ excluded_titles = None
    /\ titles = None
    /\ llm_calls = <<>>
    /\ intent_data = None
    /\ vector_query = None
    /\ store_calls = <<>>
    /\ store_failed = FALSE
    /\ results = None
    /\ documents = <<>>
    /\ metadatas = <<>>
    /\ response = None
    /\ raised = FALSE

\* A thread that serves no request.
IdleThread == [pc |-> "idle", op |-> "none", entry |-> None]

\* Nothing has been exported and no thread serves a request.
NoRequests ==
    /\ export_file = None
    /\ threads = [t \in 1..MaxThreads |-> IdleThread]

InitRetrieval ==
    /\ corpus \in Rankings
    /\ usage_log = <<>>
    /\ Idle
    /\ NoRequests

\* A caller compiles the filters of an intent and calls
\* vector_db.hybrid_search(query_text, metadata_filters, n_results).
CallHybridSearch ==
    /\ pc = "idle"
    /\ \E f \in IntentFilterChoices, n \in 1..MaxN, fail \in StoreFailures :
          LET intent == Intent("search", f, UserQuery)
              vq == construct_vector_query(intent)
              r == hybrid_search(corpus, vq.value.filters, n, fail)
          IN /\ ~vq.raised
             /\ op' = "hybrid_search"
             /\ n_results' = n
             /\ intent_data' = Some(intent)
             /\ vector_query' = Some(vq.value)
             /\ store_calls' = r.calls
             /\ store_failed' = (fail # "none")
             /\ results' = IF r.raised THEN None ELSE Some(r.value)
             /\ raised' = r.raised
    /\ pc' = "returned"
    /\ UNCHANGED <<storeVars, serverVars, excluded_titles, titles, ragVars>>

\* A caller calls vector_db.query_similar(query_text, n_results).
CallQuerySimilar ==
    /\ pc = "idle"
    /\ \E n \in 1..MaxN, fail \in {"none", "query"} :
          LET r == query_similar(corpus, n, fail)
          IN /\ op' = "query_similar"
             /\ n_results' = n
             /\ store_calls' = r.calls
             /\ store_failed' = (fail # "none")
             /\ results' = IF r.raised THEN None ELSE Some(r.value)
             /\ raised' = r.raised
    /\ pc' = "returned"
    /\ UNCHANGED <<storeVars, serverVars, excluded_titles, titles, intent_data, vector_query, ragVars>>

\* The request-local state is dropped when the call has returned.
ResetRequest ==
    /\ pc' = "idle"
    /\ op' = "none"
    /\ n_results' = 0
    /\ excluded_titles' = None
    /\ titles' = None
    /\ llm_calls' = <<>>
    /\ intent_data' = None
    /\ vector_query' = None
    /\ store_calls' = <<>>
    /\ store_failed' = FALSE
    /\ results' = None
    /\ documents' = <<>>
    /\ metadatas' = <<>>
    /\ response' = None
    /\ raised' = FALSE

\* The caller is done with the result.
Return ==
    /\ pc = "returned"
    /\ ResetRequest
    /\ UNCHANGED <<storeVars, serverVars, usage_log>>

\* The limit query parameter of GET /movies/search: any int, default 10.
LimitChoices == {-1, 0} \cup 1..MaxN

\* The extraction of search_movies treating every shape as the empty one unless it
\* is nested.
ExtractSearch_nested_only(r) ==
    IF r.nested
    THEN [documents |-> r.documents, metadatas |-> r.metadatas]
    ELSE [documents |-> <<>>, metadatas |-> <<>>]

\* "Formatting results" of search_movies: [documents, metadatas], the lists the
\* formatted results are built from (none when either entry is falsy).
ExtractSearch(r) ==
    IF r.nested \/ (Len(r.documents) > 0 /\ Len(r.metadatas) > 0)
    THEN [documents |-> r.documents, metadatas |-> r.metadatas]
    ELSE [documents |-> <<>>, metadatas |-> <<>>]

\* GET /movies/search: vector_db.query_similar(query, limit) and the formatting of
\* what it returns.
SearchMovies ==
    /\ pc = "idle"
    /\ \E limit \in LimitChoices, fail \in {"none", "query"} :
          LET r == query_similar(corpus, limit, fail)
              e == ExtractSearch(r.value)
          IN /\ op' = "search_movies"
             /\ n_results' = limit
             /\ store_calls' = r.calls
             /\ store_failed' = (fail # "none")
             /\ results' = Some(r.value)
             /\ documents' = e.documents
             /\ metadatas' = e.metadatas
    /\ pc' = "returned"
    /\ UNCHANGED <<storeVars, serverVars, excluded_titles, titles, intent_data, vector_query,
                   usage_log, llm_calls, response, raised>>

NextRetrieval == CallHybridSearch \/ CallQuerySimilar \/ SearchMovies \/ Return

SpecRetrieval == InitRetrieval /\ [][NextRetrieval]_vars

\* ------------------------------------------------------- MovieRAGSystem

NoResultsAnswer ==
    "I couldn't find any movies or shows matching your query in my database."
NoRecommendationsAnswer ==
    "I couldn't find any recommendations matching your preferences."
Apology == "I'm sorry, I encountered an error while processing your request."
RecommendationApology ==
    "I'm sorry, I encountered an error while processing your recommendation request."
NoComparisonAnswer ==
    "I couldn't find any of the titles you mentioned in my database."
ComparisonApology ==
    "I'm sorry, I encountered an error while processing your comparison request."

\* What the language model is taken to write when a generation call succeeds.
LLMAnswer == "Here are some titles you may like."

Preferences == "space operas"

\* The text _parse_user_intent is called with.
ParseQuery(o) ==
    IF o = "get_recommendations" THEN "Recommend movies based on " \o Preferences
    ELSE UserQuery

\* The first argument of _log_usage in the operation's two logging places.
LoggedQuery(o) == IF o = "get_recommendations" THEN Preferences ELSE UserQuery

\* The default intent of _parse_user_intent's except branch.
DefaultIntent(query) == Intent("search", NoIntentFilters, query)

\* _parse_user_intent(query): [raised, value].  llm is what the chat completion
\* call did: it raised, it answered text json.loads rejects, or it answered a JSON
\* object (given as parsed; a key that is missing or null is None).  Reading
\* intent_data['type'] and len(intent_data['filters']) for the log line raises on
\* a missing type or filters; search_query is not read.
parse_user_intent(query, llm) ==
    IF llm.kind \in {"raise", "invalid_json"}
    THEN [raised |-> FALSE, value |-> DefaultIntent(query)]
    ELSE IF llm.json.type = None \/ llm.json.filters = None
    THEN [raised |-> FALSE, value |-> DefaultIntent(query)]
    ELSE [raised |-> FALSE, value |-> llm.json]

\* query_llm without its try/except: the exception of the chat completion call
\* leaves the method.
query_llm_unguarded(outcome) ==
    [raised |-> outcome = "raise", value |-> LLMAnswer]

\* query_llm(system_prompt, user_query): [raised, value], the answer, or the
\* apology when the chat completion call raises.
query_llm(outcome) ==
    [raised |-> FALSE, value |-> IF outcome = "raise" THEN Apology ELSE LLMAnswer]

\* generate_system_prompt numbering the documents from the last to the first.
generate_system_prompt_reversed(context) ==
    [i \in 1..Len(context) |-> [number |-> i, doc |-> context[Len(context) + 1 - i]]]

\* generate_system_prompt(context): one numbered block per document, in order.
generate_system_prompt(context) ==
    [i \in 1..Len(context) |-> [number |-> i, doc |-> context[i]]]

\* The entry _log_usage appends (the timestamp is left out).
LogEntry(query_type, query, text) ==
    [query_type |-> query_type, query |-> query, response_length |-> Len(text)]

\* self.usage_log.append(entry) putting the entry in front of the list
log_usage_prepend(log, entry) == <<entry>> \o log

\* self.usage_log.append(entry) writing at the last index it saw instead of
\* growing the list
log_usage_overwrite(log, entry) ==
    IF Len(log) = 0 THEN <<entry>> ELSE [log EXCEPT ![Len(log)] = entry]

\* _log_usage appending the entry two times
log_usage_twice(log, entry) == Append(Append(log, entry), entry)

\* _log_usage: self.usage_log.append(entry), one atomic list operation
log_usage(log, entry) == Append(log, entry)

\* "Extract documents from results" of answer_question
ExtractDocuments(r) ==
    IF ~r.nested /\ Len(r.documents) = 0 THEN <<>>
    ELSE IF r.nested THEN r.documents
    ELSE r.documents

\* The extraction, exclusion and truncation of get_recommendations without the
\* [:n_results] slices of the branch that excludes nothing.
ExtractRecommendations_unsliced(r, excluded, n) ==
    LET empty == (~r.nested /\ (Len(r.documents) = 0 \/ Len(r.metadatas) = 0))
        docs == IF empty THEN <<>> ELSE r.documents
        metas == IF empty THEN <<>> ELSE r.metadatas
        both == Min(Len(docs), Len(metas))
        kept == SelectSeq([i \in 1..both |-> i],
                          LAMBDA i : \A k \in 1..Len(Get(excluded)) :
                                         metas[i].title # Get(excluded)[k])
    IN IF TruthyList(excluded) /\ Len(metas) > 0
       THEN [documents |-> Truncate(Pick(docs, kept), n),
             metadatas |-> Truncate(Pick(metas, kept), n)]
       ELSE [documents |-> docs, metadatas |-> metas]

\* The extraction of get_recommendations with the lists cut to n_results before
\* the excluded titles are dropped.
ExtractRecommendations_cut_first(r, excluded, n) ==
    LET empty == (~r.nested /\ (Len(r.documents) = 0 \/ Len(r.metadatas) = 0))
        docs == IF empty THEN <<>> ELSE Truncate(r.documents, n)
        metas == IF empty THEN <<>> ELSE Truncate(r.metadatas, n)
        both == Min(Len(docs), Len(metas))
        kept == SelectSeq([i \in 1..both |-> i],
                          LAMBDA i : \A k \in 1..Len(Get(excluded)) :
                                         metas[i].title # Get(excluded)[k])
    IN IF TruthyList(excluded) /\ Len(metas) > 0
       THEN [documents |-> Pick(docs, kept), metadatas |-> Pick(metas, kept)]
       ELSE [documents |-> docs, metadatas |-> metas]

\* The extraction, exclusion and truncation of get_recommendations:
\* [documents, metadatas].
ExtractRecommendations(r, excluded, n) ==
    LET empty == (~r.nested /\ (Len(r.documents) = 0 \/ Len(r.metadatas) = 0))
        docs == IF empty THEN <<>> ELSE r.documents
        metas == IF empty THEN <<>> ELSE r.metadatas
        both == Min(Len(docs), Len(metas))
        kept == SelectSeq([i \in 1..both |-> i],
                          LAMBDA i : \A k \in 1..Len(Get(excluded)) :
                                         metas[i].title # Get(excluded)[k])
    IN IF TruthyList(excluded) /\ Len(metas) > 0
       THEN [documents |-> Truncate(Pick(docs, kept), n),
             metadatas |-> Truncate(Pick(metas, kept), n)]
       ELSE [documents |-> Truncate(docs, n), metadatas |-> Truncate(metas, n)]

\* The n_results the operation hands to the retrieval call.
RetrievalCount(o, n) == IF o = "get_recommendations" THEN n * 2 ELSE n

\* The rankings the flows are run on: the first k records of the catalogue, nearest
\* first in catalogue order or in the reverse of it.
RagRankings ==
    {[i \in 1..k |-> i] : k \in 0..Min(MaxCorpus, Len(Catalogue))}
    \cup {[i \in 1..k |-> k + 1 - i] : k \in 0..Min(MaxCorpus, Len(Catalogue))}

\* What the chat completion call of _parse_user_intent is taken to do.
RagFilterChoices ==
    {NoIntentFilters, GenresOnly(<<"sci-fi">>),
     YearsOnly(<<Some(2000), Some(2010)>>), YearsOnly(<<None>>),
     YearsOnly(<<None, Some(2010)>>), YearsOnly(<<None, None>>),
     [NoIntentFilters EXCEPT !.directors = Some(<<"nolan">>)]}

LLMIntentOutcomes ==
    {[kind |-> "raise"], [kind |-> "invalid_json"]}
    \cup {[kind |-> "json", json |-> Intent("recommendation", f, "space movies")] :
          f \in RagFilterChoices}
    \cup {[kind |-> "json",
           json |-> [type |-> None, filters |-> Some(NoIntentFilters),
                     search_query |-> Some("space movies")]],
          [kind |-> "json",
           json |-> [type |-> Some("information"), filters |-> None,
                     search_query |-> Some("space movies")]],
          [kind |-> "json",
           json |-> [type |-> Some("information"), filters |-> Some(NoIntentFilters),
                     search_query |-> None]]}

ExcludedChoices == {None, Some(<<>>), Some(<<"Matrix">>)}

\* str(titles) of a list of str
repr(list) ==
    "[" \o join(", ", [i \in 1..Len(list) |-> "'" \o list[i] \o "'"]) \o "]"

\* The titles lists compare_titles is called with.
TitleChoices == {<<>>, <<"Matrix">>, <<"Serenity", "Matrix">>}

\* The collection as the store ranks it for the query text `title`: the record of
\* that title first when the collection holds it, or the ranking unchanged.
TitleRankings(c, title) ==
    {c} \cup {<<c[i]>> \o SelectSeq(c, LAMBDA d : d # c[i]) :
                i \in {j \in 1..Len(c) : Catalogue[c[j]].title = title}}

\* The store calls of query_similar(query_text=title, n_results=1), with the text
\* they were made for.
TitleCalls(calls, title) ==
    [k \in 1..Len(calls) |-> [call |-> calls[k].call, n |-> calls[k].n, text |-> title]]

\* An extraction that never finds a top hit.
TopHit_none(r) == None

\* results["documents"][0][0] when results["documents"] and
\* results["documents"][0] are truthy (query_similar returns a flat list only when
\* it is empty).
TopHit(r) == IF Len(r.documents) = 0 THEN None ELSE Some(r.documents[1])

Init ==
    /\ corpus \in RagRankings
    /\ usage_log = <<>>
    /\ Idle
    /\ NoRequests

\* answer_question(user_query, n_results) is called.
StartAnswerQuestion ==
    /\ pc = "idle"
    /\ Len(usage_log) < MaxLog
    /\ \E n \in 1..MaxN : n_results' = n
    /\ op' = "answer_question"
    /\ pc' = "parse"
    /\ UNCHANGED <<storeVars, serverVars, excluded_titles, titles, retrievalVars, ragVars, raised>>

\* get_recommendations(preferences, n_results, excluded_titles) is called.
StartGetRecommendations ==
    /\ pc = "idle"
    /\ Len(usage_log) < MaxLog
    /\ \E n \in 1..MaxN, excluded \in ExcludedChoices :
          /\ n_results' = n
          /\ excluded_titles' = excluded
    /\ op' = "get_recommendations"
    /\ pc' = "parse"
    /\ UNCHANGED <<storeVars, serverVars, titles, retrievalVars, ragVars, raised>>

\* compare_titles(titles) is called.
StartCompareTitles ==
    /\ pc = "idle"
    /\ Len(usage_log) < MaxLog
    /\ \E list \in TitleChoices :
          /\ titles' = Some(list)
          /\ pc' = IF Len(list) = 0 THEN "respond" ELSE "compare"
    /\ op' = "compare_titles"
    /\ UNCHANGED <<storeVars, serverVars, n_results, excluded_titles, retrievalVars, ragVars, raised>>

\* One turn of "for title in titles": query_similar(title, n_results=1) and the
\* top hit appended to all_documents.
CompareTitle ==
    /\ pc = "compare"
    /\ LET title == Get(titles)[Len(store_calls) + 1]
       IN \E ranking \in TitleRankings(corpus, title), fail \in {"none", "query"} :
             LET r == query_similar(ranking, 1, fail)
             IN /\ store_calls' = store_calls \o TitleCalls(r.calls, title)
                /\ store_failed' = (store_failed \/ fail # "none")
                /\ results' = Some(r.value)
                /\ documents' = IF TopHit(r.value) = None THEN documents
                                 ELSE Append(documents, Get(TopHit(r.value)))
    /\ pc' = IF Len(store_calls) + 1 = Len(Get(titles)) THEN "respond" ELSE "compare"
    /\ UNCHANGED <<storeVars, serverVars, op, n_results, excluded_titles, titles, intent_data,
                   vector_query, usage_log, llm_calls, metadatas, response, raised>>

\* intent_data = self._parse_user_intent(...)
ParseUserIntent ==
    /\ pc = "parse"
    /\ \E llm \in LLMIntentOutcomes :
          LET r == parse_user_intent(ParseQuery(op), llm)
          IN /\ llm_calls' = Append(llm_calls, [call |-> "intent", outcome |-> llm])
             /\ IF r.raised
                THEN pc' = "except" /\ UNCHANGED intent_data
                ELSE pc' = "construct" /\ intent_data' = Some(r.value)
    /\ UNCHANGED <<storeVars, serverVars, op, n_results, excluded_titles, titles, vector_query, store_calls,
                   store_failed, results, usage_log, documents, metadatas, response,
                   raised>>

\* vector_query = self._construct_vector_query(intent_data)
ConstructVectorQuery ==
    /\ pc = "construct"
    /\ LET r == construct_vector_query(Get(intent_data))
       IN IF r.raised
          THEN pc' = "except" /\ UNCHANGED vector_query
          ELSE pc' = "retrieve" /\ vector_query' = Some(r.value)
    /\ UNCHANGED <<storeVars, serverVars, op, n_results, excluded_titles, titles, intent_data, store_calls,
                   store_failed, results, ragVars, raised>>

\* results = self.vector_db.hybrid_search(...) or self.vector_db.query_similar(...)
Retrieve ==
    /\ pc = "retrieve"
    /\ LET filters == Get(vector_query).filters
           k == RetrievalCount(op, n_results)
       IN \E fail \in StoreFailures :
             /\ filters = None => fail \in {"none", "query"}
             /\ LET r == IF filters # None THEN hybrid_search(corpus, filters, k, fail)
                         ELSE query_similar(corpus, k, fail)
                IN /\ store_calls' = r.calls
                   /\ store_failed' = (fail # "none")
                   /\ IF r.raised
                      THEN pc' = "except" /\ UNCHANGED results
                      ELSE pc' = "extract" /\ results' = Some(r.value)
    /\ UNCHANGED <<storeVars, serverVars, op, n_results, excluded_titles, titles, intent_data, vector_query,
                   ragVars, raised>>

\* The documents (and metadatas) are taken out of the result dict; in
\* get_recommendations the excluded titles are dropped and the lists cut to n_results.
Extract ==
    /\ pc = "extract"
    /\ IF op = "get_recommendations"
       THEN LET e == ExtractRecommendations(Get(results), excluded_titles, n_results)
            IN documents' = e.documents /\ metadatas' = e.metadatas
       ELSE documents' = ExtractDocuments(Get(results)) /\ UNCHANGED metadatas
    /\ pc' = "respond"
    /\ UNCHANGED <<storeVars, serverVars, op, n_results, excluded_titles, titles, retrievalVars, usage_log,
                   llm_calls, response, raised>>

\* if not documents: the templated answer is logged and returned.
NoResults ==
    /\ pc = "respond"
    /\ documents = <<>>
    /\ LET answer == IF op = "get_recommendations" THEN NoRecommendationsAnswer
                     ELSE IF op = "compare_titles" THEN NoComparisonAnswer
                     ELSE NoResultsAnswer
           kind == IF op = "get_recommendations" THEN "no_recommendations"
                   ELSE IF op = "compare_titles" THEN "no_comparison"
                   ELSE "no_results"
           query == IF op = "compare_titles" THEN repr(Get(titles))
                    ELSE LoggedQuery(op)
       IN /\ response' = Some(answer)
          /\ usage_log' = log_usage(usage_log, LogEntry(kind, query, answer))
    /\ pc' = "returned"
    /\ UNCHANGED <<storeVars, serverVars, op, n_results, excluded_titles, titles, retrievalVars, llm_calls,
                   documents, metadatas, raised>>

\* The prompt is assembled, query_llm is called, the answer is logged and returned.
Generate ==
    /\ pc = "respond"
    /\ documents # <<>>
    /\ \E outcome \in {"ok", "raise"} :
          LET answer == query_llm(outcome)
              kind == IF op = "get_recommendations" THEN "recommendation"
                      ELSE IF op = "compare_titles" THEN "comparison"
                      ELSE Get(Get(intent_data).type)
              query == IF op = "compare_titles" THEN join(", ", Get(titles))
                       ELSE LoggedQuery(op)
          IN /\ llm_calls' = Append(llm_calls,
                                    [call |-> "generate",
                                     prompt |-> generate_system_prompt(documents),
                                     outcome |-> outcome])
             /\ IF answer.raised
                THEN pc' = "except" /\ UNCHANGED <<response, usage_log>>
                ELSE /\ pc' = "returned"
                     /\ response' = Some(answer.value)
                     /\ usage_log' = log_usage(usage_log,
                                               LogEntry(kind, query, answer.value))
    /\ UNCHANGED <<storeVars, serverVars, op, n_results, excluded_titles, titles, retrievalVars, documents,
                   metadatas, raised>>

\* An except branch that lets the exception leave the operation.
HandleException_reraise ==
    /\ pc = "except"
    /\ raised' = TRUE
    /\ pc' = "returned"
    /\ UNCHANGED <<storeVars, serverVars, op, n_results, excluded_titles, titles, retrievalVars,
                   ragVars>>

\* The operation's own except branch: the apology is returned, nothing is logged.
HandleException ==
    /\ pc = "except"
    /\ response' = Some(IF op = "get_recommendations" THEN RecommendationApology
                        ELSE IF op = "compare_titles" THEN ComparisonApology
                        ELSE Apology)
    /\ pc' = "returned"
    /\ UNCHANGED <<storeVars, serverVars, op, n_results, excluded_titles, titles, retrievalVars, usage_log,
                   llm_calls, documents, metadatas, raised>>

\* collection.query(...) is called and does not answer: the call is a plain
\* synchronous call with no timeout around it, so the flow stays inside it.
StoreNeverResponds ==
    /\ pc \in {"retrieve", "compare"}
    /\ store_calls' =
          IF pc = "compare"
          THEN store_calls \o TitleCalls(query_similar(corpus, 1, "query").calls,
                                         Get(titles)[Len(store_calls) + 1])
          ELSE IF Get(vector_query).filters # None
          THEN hybrid_search(corpus, Get(vector_query).filters,
                             RetrievalCount(op, n_results), "query").calls
          ELSE query_similar(corpus, RetrievalCount(op, n_results), "query").calls
    /\ pc' = "blocked"
    /\ UNCHANGED <<storeVars, serverVars, op, n_results, excluded_titles, titles, intent_data,
                   vector_query, store_failed, results, ragVars, raised>>

Next ==
    \/ StartAnswerQuestion
    \/ StartGetRecommendations
    \/ StartCompareTitles
    \/ CompareTitle
    \/ ParseUserIntent
    \/ ConstructVectorQuery
    \/ Retrieve
    \/ StoreNeverResponds
    \/ Extract
    \/ NoResults
    \/ Generate
    \/ HandleException
    \/ Return

Spec == Init /\ [][Next]_vars

\* The interpreter keeps executing the statement a flow is at.
SpecLive == Spec /\ WF_vars(Next)

\* ------------------------------------------- the consumers of a result dict

\* The result dicts a consumer can be handed for the collection ranked c: its
\* records nested one level or flat ([[]] and [] when the collection is empty).
Envelopes(c) == {[StoreQuery(c, Len(c)) EXCEPT !.nested = b] : b \in BOOLEAN}

Consumers == {"answer_question", "get_recommendations", "search_movies"}

\* What consumer o extracts from the result dict r: [documents, metadatas]
\* (answer_question reads the documents only).
Consumed(o, r, excluded, n) ==
    IF o = "answer_question"
    THEN [documents |-> ExtractDocuments(r), metadatas |-> <<>>]
    ELSE IF o = "get_recommendations" THEN ExtractRecommendations(r, excluded, n)
    ELSE ExtractSearch(r)

\* The extraction of consumer o applied to the result dict r.
Consume(o, r, excluded, n) ==
    /\ pc = "idle"
    /\ op' = o
    /\ results' = Some(r)
    /\ documents' = Consumed(o, r, excluded, n).documents
    /\ metadatas' = Consumed(o, r, excluded, n).metadatas
    /\ pc' = "returned"
    /\ UNCHANGED <<storeVars, serverVars, titles, intent_data, vector_query, store_calls,
                   store_failed, usage_log, llm_calls, response, raised>>

ConsumeAnswerQuestion ==
    /\ \E r \in Envelopes(corpus) : Consume("answer_question", r, None, 0)
    /\ UNCHANGED <<n_results, excluded_titles>>

ConsumeGetRecommendations ==
    \E r \in Envelopes(corpus), n \in 1..MaxN, excluded \in ExcludedChoices :
       /\ Consume("get_recommendations", r, excluded, n)
       /\ n_results' = n
       /\ excluded_titles' = excluded

ConsumeSearchMovies ==
    /\ \E r \in Envelopes(corpus) : Consume("search_movies", r, None, 0)
    /\ UNCHANGED <<n_results, excluded_titles>>

NextShapes ==
    ConsumeAnswerQuestion \/ ConsumeGetRecommendations \/ ConsumeSearchMovies \/ Return

SpecShapes == InitRetrieval /\ [][NextShapes]_vars

\* ------------------------------------------- requests served concurrently

\* The flows a handler of routers/movies.py calls on the shared rag_system.
FlowOps == {"answer_question", "get_recommendations", "compare_titles"}

\* The text a thread's request logs: one request per thread, each with its own.
ThreadQuery(t) == "request " \o str(t)

\* The ways a flow ends: its empty-result answer, its answered state with the
\* model's answer or with query_llm's apology, or its outer except branch.
FlowEndings == {"empty", "answered", "apology", "exception"}

\* The entry a flow hands to _log_usage at the given ending.
FlowEntry(o, ending, t) ==
    LET empty == ending = "empty"
        kind == IF o = "answer_question" THEN (IF empty THEN "no_results" ELSE "search")
                ELSE IF o = "get_recommendations"
                THEN (IF empty THEN "no_recommendations" ELSE "recommendation")
                ELSE (IF empty THEN "no_comparison" ELSE "comparison")
        answer == IF ending = "answered" THEN LLMAnswer
                  ELSE IF ending = "apology" THEN Apology
                  ELSE IF o = "answer_question" THEN NoResultsAnswer
                  ELSE IF o = "get_recommendations" THEN NoRecommendationsAnswer
                  ELSE NoComparisonAnswer
    IN LogEntry(kind, ThreadQuery(t), answer)

InitConcurrent ==
    /\ corpus = <<>>
    /\ usage_log = <<>>
    /\ Idle
    /\ NoRequests

requestState == <<requestVars, retrievalVars, llm_calls, documents, metadatas, response,
                  raised>>

\* A handler starts a flow on thread t.
HandlerStart(t) ==
    /\ threads[t].pc = "idle"
    /\ \E o \in FlowOps : threads' = [threads EXCEPT ![t].pc = "running", ![t].op = o]
    /\ UNCHANGED <<storeVars, requestState, usage_log, export_file>>

\* The flow of thread t reaches its last statements: the _log_usage call of its
\* empty-result or answered state, or the return of its except branch.
FlowEnds(t) ==
    /\ threads[t].pc = "running"
    /\ \E ending \in FlowEndings :
          threads' = IF ending = "exception"
                     THEN [threads EXCEPT ![t].pc = "done"]
                     ELSE [threads EXCEPT
                              ![t].pc = "logging",
                              ![t].entry = Some(FlowEntry(threads[t].op, ending, t))]
    /\ UNCHANGED <<storeVars, requestState, usage_log, export_file>>

\* _log_usage on thread t: the entry is appended, then the flow returns.
LogUsage(t) ==
    /\ threads[t].pc = "logging"
    /\ usage_log' = log_usage(usage_log, Get(threads[t].entry))
    /\ threads' = [threads EXCEPT ![t].pc = "done"]
    /\ UNCHANGED <<storeVars, requestState, export_file>>

\* export_usage_log(output_file): json.dump of the log into the file; when open
\* or json.dump raises the error is logged, and the file is as it was or unusable.
ExportUsageLog ==
    /\ \E written \in BOOLEAN :
          export_file' \in IF written THEN {Some(usage_log)} ELSE {export_file, None}
    /\ UNCHANGED <<storeVars, requestState, usage_log, threads>>

NextConcurrent ==
    \/ \E t \in 1..MaxThreads : HandlerStart(t)
    \/ \E t \in 1..MaxThreads : FlowEnds(t)
    \/ \E t \in 1..MaxThreads : LogUsage(t)
    \/ ExportUsageLog

SpecConcurrent == InitConcurrent /\ [][NextConcurrent]_vars

\* ================================================================ claims
\* What the specification asks of a document, field by field.

\* Case-insensitive substring containment, OR-joined across the list.
ContainsAny(names, field) ==
    \E k \in 1..Len(names) : In(lower(names[k]), lower(field))

SciFiSynonyms == {"sci-fi", "science fiction", "scifi", "sci fi"}

ContainsSciFiTerm(field) == \E t \in SciFiSynonyms : In(t, lower(field))

\* Containment with the synonym table expanded.
GenreSatisfied(requested, field) ==
    \E k \in 1..Len(requested) :
        \/ In(lower(requested[k]), lower(field))
        \/ lower(requested[k]) \in SciFiSynonyms /\ ContainsSciFiTerm(field)

\* The year a document is compared by: the start year of "YYYY" or "YYYY-YYYY".
StartYear(year) == int(split(year, "-")[1])

\* lo <= start year <= hi, for the bounds that are set.
YearSatisfied(year_range, year) ==
    LET y == StartYear(year)
        lo == IF Len(year_range) >= 1 THEN year_range[1] ELSE None
        hi == IF Len(year_range) >= 2 THEN year_range[2] ELSE None
    IN /\ y # None
       /\ TruthyInt(lo) => Get(lo) <= Get(y)
       /\ TruthyInt(hi) => Get(y) <= Get(hi)

SatisfiesAll(f, meta) ==
    /\ TruthyList(f.genres) => GenreSatisfied(Get(f.genres), meta.genres)
    /\ TruthyList(f.year_range) => YearSatisfied(Get(f.year_range), meta.year)
    /\ TruthyList(f.directors) => ContainsAny(Get(f.directors), meta.directors)
    /\ TruthyList(f.actors) => ContainsAny(Get(f.actors), meta.cast)

\* The state after a hybrid_search call that returned.
HybridReturned == pc = "returned" /\ op = "hybrid_search" /\ results # None
HybridAnswered == HybridReturned /\ ~store_failed

IntentFilters == Get(Get(intent_data).filters)
CompiledFilters == Get(vector_query).filters

\* The ranks (= distances) of the documents in the result.
ReturnedRanks ==
    {Get(results).distances[k] : k \in 1..Len(Get(results).distances)}

\* The candidates collection.query delivered to hybrid_search.
Window == 1..Min(OverfetchFactor * n_results, Len(corpus))

\* Rank i is not in the result only because n_results nearer documents are.
CutOff(i) ==
    /\ Len(Get(results).ids) = n_results
    /\ \A r \in ReturnedRanks : r < i

MetaAt(i) == Catalogue[corpus[i]]

\* C1 (claim as stated): after hybrid_search with a non-empty compiled filter set,
\* every document of the returned envelope satisfies every populated field of the
\* filter set (genres, year, directors, cast).
C1_ResultSatisfiesFilters ==
    (HybridReturned /\ CompiledFilters # None) =>
        \A k \in 1..Len(Get(results).metadatas) :
            SatisfiesAll(IntentFilters, Get(results).metadatas[k])

\* The result holds exactly the min(n, m) nearest of the m documents ranked in
\* `ranks` that pass the filter, in ascending-distance order, with ids, documents,
\* metadatas and distances aligned.
NearestPassing(ranks) ==
    LET passing == {i \in ranks : Include(Get(CompiledFilters), MetaAt(i))}
        r == Get(results)
    IN /\ Len(r.ids) = Min(n_results, Cardinality(passing))
       /\ \A k \in 1..Len(r.ids) :
             /\ r.distances[k] \in passing
             /\ r.ids[k] = corpus[r.distances[k]]
             /\ r.documents[k] = corpus[r.distances[k]]
             /\ r.metadatas[k] = MetaAt(r.distances[k])
             /\ Cardinality({i \in passing : i < r.distances[k]}) = k - 1

GenreFilterOnly ==
    /\ TruthyList(IntentFilters.genres)
    /\ IntentFilters = GenresOnly(Get(IntentFilters.genres))

\* C2 (claim as stated): a hybrid query with a genre filter returns exactly the
\* min(n, m) nearest of ALL m documents of the corpus that pass the genre filter, in
\* ascending-distance order, wherever they sit in the ranking.
C2_NearestOfWholeCorpus ==
    (HybridAnswered /\ GenreFilterOnly) => NearestPassing(1..Len(corpus))

\* C2 (amended): a hybrid query with a genre filter returns exactly the min(n, m)
\* nearest of the m documents that lie within the first 3n positions of the
\* similarity ranking and pass the genre check of hybrid_search, in
\* ascending-distance order.
C2_NearestWithinOverfetch ==
    (HybridAnswered /\ GenreFilterOnly) => NearestPassing(Window)

\* C2 witness: the filter dropped a nearer candidate and the result was cut to n.
C2_Witness ==
    /\ HybridAnswered /\ GenreFilterOnly
    /\ Len(Get(results).ids) = n_results
    /\ \E i \in Window : i \notin ReturnedRanks /\ \E r \in ReturnedRanks : i < r
    /\ \E i \in Window : i \notin ReturnedRanks /\ CutOff(i)
           /\ Include(Get(CompiledFilters), MetaAt(i))

\* C3 (claim as stated): the envelope a retrieval operation returns holds at most
\* n_results entries, for query_similar and for hybrid_search with or without
\* metadata_filters.
C3_AtMostNResults ==
    (pc = "returned" /\ results # None) =>
        /\ Len(Get(results).ids) <= n_results
        /\ Len(Get(results).documents) <= n_results
        /\ Len(Get(results).metadatas) <= n_results
        /\ Len(Get(results).distances) <= n_results

\* C5: when a call to the vector store raises inside query_similar or hybrid_search
\* (the count and sample calls included), the operation returns an empty envelope
\* and no exception reaches the caller.
C5_StoreFailureIsEmptyEnvelope ==
    (pc = "returned" /\ store_failed) =>
        /\ ~raised
        /\ results # None
        /\ Get(results).ids = <<>>
        /\ Get(results).documents = <<>>
        /\ Get(results).metadatas = <<>>
        /\ Get(results).distances = <<>>

\* C5 witness: hybrid_search has returned after collection.count() raised.
C5_Witness ==
    /\ pc = "returned" /\ op = "hybrid_search" /\ store_failed
    /\ store_calls = <<[call |-> "count", n |-> 0]>>
    /\ Len(corpus) > 0

\* C8 (claim as stated): with a directors (resp. actors) filter, no candidate whose
\* directors (resp. cast) field contains none of the requested names is returned.
C8_DirectorsActorsEnforced ==
    HybridReturned =>
        \A k \in 1..Len(Get(results).metadatas) :
            LET meta == Get(results).metadatas[k]
            IN /\ TruthyList(IntentFilters.directors) =>
                      ContainsAny(Get(IntentFilters.directors), meta.directors)
               /\ TruthyList(IntentFilters.actors) =>
                      ContainsAny(Get(IntentFilters.actors), meta.cast)

\* C9: with filter genres = ["sci-fi"], a candidate whose genres field contains
\* "Science Fiction" in any letter case passes the genre filter (it is returned
\* unless n nearer documents are), and a candidate with genres "Drama, Comedy" is
\* rejected.
C9_GenreSynonymLaw ==
    (HybridAnswered /\ IntentFilters = GenresOnly(<<"sci-fi">>)) =>
        \A i \in Window :
            /\ In("science fiction", lower(MetaAt(i).genres)) =>
                   i \in ReturnedRanks \/ CutOff(i)
            /\ MetaAt(i).genres = "Drama, Comedy" => i \notin ReturnedRanks

\* C9 witness: a "SCIENCE FICTION" document is returned although a
\* "Drama, Comedy" document is nearer, and that one is left out.
C9_Witness ==
    /\ HybridAnswered /\ IntentFilters = GenresOnly(<<"sci-fi">>)
    /\ \E i, j \in Window :
          /\ i < j
          /\ MetaAt(i).genres = "Drama, Comedy" /\ i \notin ReturnedRanks
          /\ MetaAt(j).genres = "SCIENCE FICTION" /\ j \in ReturnedRanks

\* C10 (claim as stated): for each of sci-fi, science fiction, scifi and sci fi as
\* the requested genre, a candidate passes the genre filter if and only if its
\* genres field contains one of the four terms (case-insensitively).
C10_SynonymEquivalence ==
    (/\ HybridAnswered /\ GenreFilterOnly
     /\ Len(Get(IntentFilters.genres)) = 1
     /\ Get(IntentFilters.genres)[1] \in SciFiSynonyms) =>
        \A i \in Window :
            /\ ContainsSciFiTerm(MetaAt(i).genres) => i \in ReturnedRanks \/ CutOff(i)
            /\ i \in ReturnedRanks => ContainsSciFiTerm(MetaAt(i).genres)

\* The semantic (no-filter) path of a flow whose store call succeeded, with no
\* title to exclude.
SemanticAnswered ==
    /\ op \in {"answer_question", "get_recommendations"}
    /\ pc \in {"respond", "returned"}
    /\ vector_query # None /\ Get(vector_query).filters = None
    /\ results # None /\ ~store_failed
    /\ ~TruthyList(excluded_titles)

\* C4: on the semantic path, with a store of A documents that answers every
\* similarity query, the number of documents handed on to prompt assembly is
\* exactly min(n, A), in answer_question and in get_recommendations.
C4_SemanticCount ==
    SemanticAnswered =>
        /\ Len(documents) = Min(n_results, Len(corpus))
        /\ \A k \in 1..Len(llm_calls) :
               llm_calls[k].call = "generate" =>
                   Len(llm_calls[k].prompt) = Min(n_results, Len(corpus))

\* C4 witness: get_recommendations fetched more than n documents and hands on n.
C4_Witness ==
    /\ SemanticAnswered /\ op = "get_recommendations" /\ pc = "returned"
    /\ Len(Get(results).documents) > n_results
    /\ Len(documents) = n_results
    /\ \E k \in 1..Len(llm_calls) : llm_calls[k].call = "generate"

\* What the retrieval call of the request returns when collection.query raises.
FailureEnvelope ==
    IF Get(vector_query).filters # None
    THEN hybrid_search(corpus, Get(vector_query).filters,
                       RetrievalCount(op, n_results), "query").value
    ELSE query_similar(corpus, RetrievalCount(op, n_results), "query").value

\* C6 (claim as stated): the envelope a retrieval operation returns when the store
\* succeeds with zero matching documents is identical to the one it returns when
\* the store raises, and answer_question gives the same answer and the same
\* usage-log kind in both runs.
C6_FailureLooksLikeZeroMatch ==
    (/\ op = "answer_question" /\ pc = "returned"
     /\ results # None /\ ~store_failed /\ Len(Get(results).documents) = 0) =>
        /\ Get(results) = FailureEnvelope
        /\ ExtractDocuments(FailureEnvelope) = documents
        /\ response = Some(NoResultsAnswer)
        /\ usage_log[Len(usage_log)].query_type = "no_results"

\* The outcomes of the chat completion call that the claim counts as a failure.
ParseFailed(llm) ==
    \/ llm.kind \in {"raise", "invalid_json"}
    \/ /\ llm.kind = "json"
       /\ \/ llm.json.type = None
          \/ llm.json.filters = None
          \/ llm.json.search_query = None

\* C7 (claim as stated): _parse_user_intent never raises, and when the language
\* call raises, its output is not valid JSON, or the JSON lacks type, filters or
\* search_query, it returns the default intent
\* {type: search, filters: {}, search_query: <the original query>}.
C7_ParseFailureYieldsDefault ==
    (pc = "construct" /\ ParseFailed(llm_calls[Len(llm_calls)].outcome)) =>
        intent_data = Some(DefaultIntent(ParseQuery(op)))

\* C11 (claim as stated): genre filtering is OR-joined across the whole requested
\* list G: a candidate passes the genre filter whenever at least one genre of G is a
\* case-insensitive substring of its genres field, also when G contains "sci-fi"
\* (it is then returned unless n nearer documents are).
C11_GenresOrJoined ==
    (HybridAnswered /\ GenreFilterOnly) =>
        \A i \in Window :
            ContainsAny(Get(IntentFilters.genres), MetaAt(i).genres) =>
                i \in ReturnedRanks \/ CutOff(i)

\* A year_range of two set bounds is the only filter.
YearRangeOnly ==
    /\ TruthyList(IntentFilters.year_range)
    /\ IntentFilters = YearsOnly(Get(IntentFilters.year_range))
    /\ Len(Get(IntentFilters.year_range)) = 2
    /\ TruthyInt(Get(IntentFilters.year_range)[1])
    /\ TruthyInt(Get(IntentFilters.year_range)[2])

InYearRange(year_range, y) == Get(year_range[1]) <= y /\ y <= Get(year_range[2])

\* C12: with year_range [lo, hi], a candidate whose year is "YYYY" or "YYYY-YYYY"
\* is kept by the year filter iff lo <= y <= hi for its (start) year y, both bounds
\* inclusive; for [2000, 2010], "1999" and "2012-2015" are excluded, "2005" and
\* "2010-2012" are kept (returned unless n nearer documents are).
C12_YearRangeLaw ==
    (HybridAnswered /\ YearRangeOnly) =>
        LET year_range == Get(IntentFilters.year_range)
        IN \A i \in Window :
              LET y == StartYear(MetaAt(i).year)
              IN /\ y # None =>
                     /\ InYearRange(year_range, Get(y)) =>
                            i \in ReturnedRanks \/ CutOff(i)
                     /\ i \in ReturnedRanks => InYearRange(year_range, Get(y))
                 /\ year_range = <<Some(2000), Some(2010)>> =>
                     /\ MetaAt(i).year \in {"1999", "2012-2015"} =>
                            i \notin ReturnedRanks
                     /\ MetaAt(i).year \in {"2005", "2010-2012"} =>
                            i \in ReturnedRanks \/ CutOff(i)

\* C12 witness: with [2000, 2010], "1999" and "2012-2015" were candidates and are
\* left out, "2005" and "2010-2012" are returned, the latter on its start year.
C12_Witness ==
    /\ HybridAnswered /\ YearRangeOnly
    /\ Get(IntentFilters.year_range) = <<Some(2000), Some(2010)>>
    /\ \E i, j \in Window :
          /\ MetaAt(i).year = "1999" /\ i \notin ReturnedRanks
          /\ MetaAt(j).year = "2012-2015" /\ j \notin ReturnedRanks
    /\ \E i, j \in Window :
          /\ MetaAt(i).year = "2005" /\ i \in ReturnedRanks
          /\ MetaAt(j).year = "2010-2012" /\ j \in ReturnedRanks

\* _construct_vector_query has been called in the flow being served.
ConstructDone == intent_data # None /\ pc \notin {"idle", "parse", "construct"}

\* The year_range of the intent ([] when the key is missing or null) and its bounds.
IntentYearRange ==
    IF IntentFilters.year_range = None THEN <<>> ELSE Get(IntentFilters.year_range)
LowerBound == IF Len(IntentYearRange) >= 1 THEN IntentYearRange[1] ELSE None
UpperBound == IF Len(IntentYearRange) >= 2 THEN IntentYearRange[2] ELSE None

\* The "year" entry of the compiled filters.
CompiledYear == IF CompiledFilters = None THEN None ELSE Get(CompiledFilters).year

\* C13 (claim as stated): for every year_range the parser can deliver (lower bound
\* only, upper bound only, both, neither, fewer than two elements),
\* _construct_vector_query completes without raising and compiles exactly the
\* bounds that are set ($gte only, $lte only, both, or no year entry), and the
\* documents hybrid_search returns respect those bounds.
C13_YearBoundsOptional ==
    ConstructDone =>
        /\ vector_query # None
        /\ (CompiledYear = None) <=> (~TruthyInt(LowerBound) /\ ~TruthyInt(UpperBound))
        /\ CompiledYear # None =>
               /\ Get(CompiledYear).gte =
                      (IF TruthyInt(LowerBound) THEN Some(str(Get(LowerBound))) ELSE None)
               /\ Get(CompiledYear).lte =
                      (IF TruthyInt(UpperBound) THEN Some(str(Get(UpperBound))) ELSE None)
        /\ (results # None /\ CompiledYear # None) =>
               \A k \in 1..Len(Get(results).metadatas) :
                   LET y == StartYear(Get(results).metadatas[k].year)
                   IN y # None =>
                          /\ TruthyInt(LowerBound) => Get(LowerBound) <= Get(y)
                          /\ TruthyInt(UpperBound) => Get(y) <= Get(UpperBound)

\* get_recommendations has extracted, filtered and cut its documents.
RecommendationsExtracted ==
    /\ op = "get_recommendations" /\ pc \in {"respond", "returned"}
    /\ results # None

IsExcluded(title) ==
    \E k \in 1..Len(Get(excluded_titles)) : Get(excluded_titles)[k] = title

\* The positions of the retrieved candidates whose title is not excluded.
NotExcluded ==
    {i \in 1..Len(Get(results).metadatas) :
        ~IsExcluded(Get(results).metadatas[i].title)}

\* The prompts of the generation calls the request has issued.
GeneratePrompts ==
    {llm_calls[k].prompt : k \in {j \in 1..Len(llm_calls) : llm_calls[j].call = "generate"}}

\* C14: in get_recommendations with a non-empty excluded_titles, no entry whose
\* metadata title is in excluded_titles is handed to prompt assembly, and whenever
\* the retrieved candidate list holds at least n non-excluded entries exactly n
\* entries are handed on.
C14_ExclusionLaw ==
    (RecommendationsExtracted /\ TruthyList(excluded_titles)) =>
        /\ Len(documents) = Len(metadatas)
        /\ \A k \in 1..Len(metadatas) :
               /\ ~IsExcluded(metadatas[k].title)
               /\ ~IsExcluded(Catalogue[documents[k]].title)
        /\ Cardinality(NotExcluded) >= n_results => Len(documents) = n_results
        /\ \A prompt \in GeneratePrompts :
               /\ Len(prompt) = Len(documents)
               /\ \A k \in 1..Len(prompt) : prompt[k].doc = documents[k]

\* C14 witness: an excluded title sat within the first n candidates, and a
\* candidate ranked beyond position n was handed on in its place.
C14_Witness ==
    /\ RecommendationsExtracted /\ TruthyList(excluded_titles) /\ pc = "returned"
    /\ \E i \in 1..n_results :
          i <= Len(Get(results).metadatas) /\ IsExcluded(Get(results).metadatas[i].title)
    /\ Len(documents) = n_results
    /\ Len(Get(results).documents) > n_results
    /\ documents[n_results] = Get(results).documents[n_results + 1]
    /\ GeneratePrompts # {}

\* The position of document d in the list docs (documents are distinct).
PositionIn(docs, d) == CHOOSE i \in 1..Len(docs) : docs[i] = d

\* C15: the entries that survive the hybrid predicate pass and the exclusion pass
\* keep the relative order of the candidate list received from the vector store
\* (ascending distance); filtering and truncation never reorder them, and ids,
\* documents, metadatas and distances stay aligned index by index.
C15_OrderPreserved ==
    (op \in {"answer_question", "get_recommendations"} /\ results # None) =>
        LET r == Get(results)
        IN /\ Len(r.documents) = Len(r.ids)
           /\ Len(r.metadatas) = Len(r.ids)
           /\ Len(r.distances) = Len(r.ids)
           /\ \A k \in 1..Len(r.ids) :
                  /\ r.distances[k] \in 1..Len(corpus)
                  /\ r.ids[k] = corpus[r.distances[k]]
                  /\ r.documents[k] = corpus[r.distances[k]]
                  /\ r.metadatas[k] = MetaAt(r.distances[k])
           /\ \A j, k \in 1..Len(r.ids) : j < k => r.distances[j] < r.distances[k]
           /\ pc \in {"respond", "returned"} =>
                  /\ \A k \in 1..Len(documents) :
                         \E i \in 1..Len(r.documents) : r.documents[i] = documents[k]
                  /\ \A j, k \in 1..Len(documents) :
                         j < k => PositionIn(r.documents, documents[j])
                                      < PositionIn(r.documents, documents[k])
                  /\ op = "get_recommendations" =>
                         /\ Len(metadatas) = Len(documents)
                         /\ \A k \in 1..Len(documents) :
                                metadatas[k] = Catalogue[documents[k]]

\* C15 witness: get_recommendations on the hybrid path; the genre filter dropped a
\* candidate that lies between two survivors, the exclusion pass dropped another
\* entry, and two survivors were handed on.
C15_Witness ==
    /\ op = "get_recommendations" /\ pc = "returned" /\ results # None
    /\ CompiledFilters # None /\ ~store_failed
    /\ TruthyList(excluded_titles)
    /\ Len(Get(results).documents) > Len(documents)
    /\ Len(documents) >= 2
    /\ \E i \in 1..Len(corpus) :
          /\ i \notin ReturnedRanks
          /\ \E a, b \in ReturnedRanks : a < i /\ i < b

\* The result counts of the similarity queries the request has sent to the store.
QueryCounts ==
    {store_calls[k].n : k \in {j \in 1..Len(store_calls) : store_calls[j].call = "query"}}

\* The flow has taken the hybrid branch, resp. the semantic branch.
HybridBranch ==
    /\ op \in {"answer_question", "get_recommendations"}
    /\ vector_query # None /\ CompiledFilters # None
SemanticBranch ==
    /\ op \in {"answer_question", "get_recommendations"}
    /\ vector_query # None /\ CompiledFilters = None

\* C16 (claim as stated): on the hybrid path, the number of candidates requested
\* from the store's similarity query is exactly 3 * n in answer_question and
\* exactly 2 * n in get_recommendations.
C16_HybridOverfetchAmount ==
    HybridBranch =>
        \A count \in QueryCounts :
            count = IF op = "answer_question" THEN 3 * n_results ELSE 2 * n_results

\* C17 (claim as stated): on the semantic branch, the number of candidates
\* requested from the store's similarity query is exactly the requested result
\* count n, in answer_question and in get_recommendations.
C17_SemanticFetchAmount ==
    SemanticBranch => \A count \in QueryCounts : count = n_results

\* None of genres, year_range, directors, actors carries a usable value: each list
\* is missing, null or empty, and no bound of year_range is set.
NoUsableFilter ==
    /\ ~TruthyList(IntentFilters.genres)
    /\ ~TruthyList(IntentFilters.directors)
    /\ ~TruthyList(IntentFilters.actors)
    /\ ~TruthyInt(LowerBound) /\ ~TruthyInt(UpperBound)

\* The retrieval call the flow made: query_similar sends the similarity query
\* only, hybrid_search starts with collection.count().
TookSemanticBranch == store_calls # <<>> /\ store_calls[1].call = "query"
TookHybridBranch == store_calls # <<>> /\ store_calls[1].call = "count"

\* C18 (claim as stated): _construct_vector_query returns filters = null if and
\* only if none of genres, year_range, directors, actors carries a usable value
\* (empty list, null, or a year_range with both bounds unset); in that case and only
\* in that case the request takes the semantic branch, otherwise the hybrid branch.
C18_NullFiltersIff ==
    ConstructDone =>
        /\ NoUsableFilter <=> (vector_query # None /\ CompiledFilters = None)
        /\ pc \in {"extract", "respond", "returned"} =>
               IF NoUsableFilter THEN TookSemanticBranch ELSE TookHybridBranch

\* The positions of the generation calls among the calls to the language model.
GenerateCalls == {k \in 1..Len(llm_calls) : llm_calls[k].call = "generate"}

\* C19: in answer_question, when retrieval yields no documents the request ends in
\* the templated "no results" answer and the generation call is never issued; when
\* it yields at least one document the prompt is assembled from exactly the
\* retrieved documents in retrieval order (numbered 1..k, k <= n) and the
\* generation call is issued exactly once, as the last step before the request
\* ends.
C19_AnswerQuestionFlow ==
    op = "answer_question" =>
        /\ pc # "returned" => GenerateCalls = {}
        /\ (pc = "returned" /\ results # None /\ Len(Get(results).documents) = 0) =>
               /\ response = Some(NoResultsAnswer)
               /\ GenerateCalls = {}
        /\ (pc = "returned" /\ results # None /\ Len(Get(results).documents) > 0) =>
               LET retrieved == Get(results).documents
               IN /\ GenerateCalls = {Len(llm_calls)}
                  /\ Len(retrieved) <= n_results
                  /\ llm_calls[Len(llm_calls)].prompt =
                         [i \in 1..Len(retrieved) |-> [number |-> i, doc |-> retrieved[i]]]
                  /\ response # None /\ response # Some(NoResultsAnswer)

\* C19 witness: answer_question ended after one generation call whose prompt
\* numbers two retrieved documents, the nearer one first.
C19_Witness ==
    /\ op = "answer_question" /\ pc = "returned" /\ results # None
    /\ Len(Get(results).documents) = 2
    /\ Cardinality(GenerateCalls) = 1
    /\ Len(llm_calls[Len(llm_calls)].prompt) = 2
    /\ llm_calls[Len(llm_calls)].prompt[1].doc = corpus[Get(results).distances[1]]

\* The chat completion call inside query_llm has raised in this request.
GenerationFailed == \E k \in GenerateCalls : llm_calls[k].outcome = "raise"

\* C20: if the language-model call inside query_llm raises, query_llm returns the
\* fixed apology string and raises nothing, so answer_question,
\* get_recommendations and compare_titles return that string to the HTTP handler
\* and no exception reaches it.
C20_GenerationFailureRecovered ==
    GenerationFailed =>
        /\ op \in {"answer_question", "get_recommendations", "compare_titles"}
        /\ pc = "returned"
        /\ ~raised
        /\ response = Some(Apology)

\* C20 witness: compare_titles collected two documents, its generation call
\* raised, and it returned the apology string.
C20_Witness ==
    /\ op = "compare_titles" /\ pc = "returned"
    /\ Len(documents) = 2
    /\ GenerationFailed
    /\ response = Some(Apology)

\* The earlier log is a prefix of the later one.
IsPrefix(earlier, later) ==
    /\ Len(earlier) <= Len(later)
    /\ SubSeq(later, 1, Len(earlier)) = earlier

\* C21: the usage log is append-only: in every step of answer_question,
\* get_recommendations, compare_titles and export_usage_log calls its length never
\* decreases and every entry keeps its position and contents (the earlier log is a
\* prefix of the later one); export_usage_log (the one step that leaves every
\* thread where it is) leaves the log unchanged, also when writing the file fails.
C21_LogAppendOnly ==
    [][/\ IsPrefix(usage_log, usage_log')
       /\ threads' = threads => usage_log' = usage_log]_vars

\* C21 witness: two requests have logged, the log was exported when it held the
\* first entry only, and that entry is still the first one.
C21_Witness ==
    /\ Len(usage_log) = 2
    /\ export_file = Some(<<usage_log[1]>>)
    /\ \A t \in 1..MaxThreads : threads[t].pc = "done"

\* Thread t's request has ended in a logging ending and its _log_usage has run.
HasLogged(t) == threads[t].pc = "done" /\ threads[t].entry # None

\* The positions of the log that hold the entry of thread t's request.
EntriesOf(t) ==
    IF threads[t].entry = None THEN {}
    ELSE {k \in 1..Len(usage_log) : usage_log[k] = Get(threads[t].entry)}

\* C22: under any interleaving of requests served concurrently on the shared
\* MovieRAGSystem, the log holds exactly one whole entry per request whose
\* _log_usage has run, and nothing else: no entry is lost, duplicated or mixed with
\* fields of another request's entry.
C22_LogAppendsSerialized ==
    /\ \A t \in 1..MaxThreads :
           Cardinality(EntriesOf(t)) = IF HasLogged(t) THEN 1 ELSE 0
    /\ \A k \in 1..Len(usage_log) :
           \E t \in 1..MaxThreads : HasLogged(t) /\ usage_log[k] = Get(threads[t].entry)
    /\ Len(usage_log) = Cardinality({t \in 1..MaxThreads : HasLogged(t)})

\* C22 witness: every request has finished, two of them have logged, and the
\* request of the second thread got its entry in before that of the first.
C22_Witness ==
    /\ \A t \in 1..MaxThreads : threads[t].pc = "done"
    /\ HasLogged(1) /\ HasLogged(2)
    /\ EntriesOf(2) = {1} /\ EntriesOf(1) = {2}

\* C23: every request eventually reaches a terminal state, also when an external
\* call never answers: a flow that has been called eventually returns.
C23_EveryRequestTerminates == (pc # "idle") ~> (pc = "returned")

IntentCalls == {k \in 1..Len(llm_calls) : llm_calls[k].call = "intent"}
QueryCalls == {k \in 1..Len(store_calls) : store_calls[k].call = "query"}

\* The store answered the hybrid query with candidates and the compiled filters
\* keep none of them.
AllCandidatesEliminated ==
    /\ HybridBranch
    /\ results # None /\ ~store_failed
    /\ FiltersTruthy(Get(CompiledFilters))
    /\ Len(corpus) > 0
    /\ filtered_indices(Get(CompiledFilters),
                        StoreQuery(corpus, OverfetchCount(n_results))) = <<>>

\* C24: no retries.  In one answer_question call the intent-parse call is issued
\* exactly once, the similarity query at most once and the generation call at most
\* once, whatever fails; when the filters eliminate every candidate there is no
\* second, larger over-fetch and the result is the empty envelope.
C24_NoRetries ==
    op = "answer_question" =>
       /\ Cardinality(IntentCalls) = IF pc = "parse" THEN 0 ELSE 1
       /\ Cardinality(QueryCalls) <= 1
       /\ Cardinality(GenerateCalls) <= 1
       /\ AllCandidatesEliminated =>
             /\ Get(results) = NestedEmpty
             /\ Cardinality(QueryCalls) = 1

\* C24 witness: answer_question has returned after a hybrid query on a non-empty
\* collection whose candidates were all filtered out, with one call of each kind
\* made and no generation.
C24_Witness ==
    /\ op = "answer_question" /\ pc = "returned"
    /\ AllCandidatesEliminated
    /\ Cardinality(IntentCalls) = 1 /\ Cardinality(QueryCalls) = 1
    /\ GenerateCalls = {}
    /\ response = Some(NoResultsAnswer)

\* C25: no failure inside the core is fatal.  Whatever the vector store and the
\* language capability do and whatever intent the parser returns (malformed filters
\* included), answer_question, get_recommendations and compare_titles never raise,
\* and when they have returned they have returned a string.
C25_NoFailureFatal ==
    op \in FlowOps =>
       /\ ~raised
       /\ pc = "returned" => response # None

\* C25 witness: answer_question has returned its apology after the intent parser
\* delivered year_range = [None], on which _construct_vector_query raises.
C25_Witness ==
    /\ op = "answer_question" /\ pc = "returned"
    /\ intent_data # None /\ IntentFilters = YearsOnly(<<None>>)
    /\ vector_query = None
    /\ response = Some(Apology)
    /\ ~raised

\* C26 (claim as stated): at every fetch issued to the vector store the requested
\* result count is greater than 0 and the over-fetch count is at least the count
\* the caller asked for; no public entry point lets a count n <= 0 reach the store.
C26_PositiveResultCount ==
    \A k \in QueryCalls : store_calls[k].n > 0 /\ store_calls[k].n >= n_results

\* What holds: the counts answer_question, get_recommendations, compare_titles and
\* hybrid_search hand to the store are positive and at least the requested count.
C26_FlowCountsPositive ==
    op # "search_movies" =>
       \A k \in QueryCalls : store_calls[k].n > 0 /\ store_calls[k].n >= n_results

\* The result dict r in its flat and in its nested form.
FlatForm(r) == [r EXCEPT !.nested = FALSE]
NestedForm(r) == [r EXCEPT !.nested = TRUE]

\* What the consumer o at hand extracts from the result dict r.
ConsumedNow(r) == Consumed(op, r, excluded_titles, n_results)

\* C27: shape normalization.  Whether the result dict is nested one level, flat,
\* the nested empty [[]] or the flat empty [], the consumer (answer_question,
\* get_recommendations, search_movies) extracts the same flat document and metadata
\* sequences, of equal length, as it does from the other form of the same content:
\* the documents themselves in answer_question and search_movies, those left by the
\* exclusion and the cut to n_results in get_recommendations.
C27_ShapeNormalization ==
    (pc = "returned" /\ op \in Consumers) =>
       LET r == Get(results)
       IN /\ documents = ConsumedNow(FlatForm(r)).documents
          /\ documents = ConsumedNow(NestedForm(r)).documents
          /\ metadatas = ConsumedNow(FlatForm(r)).metadatas
          /\ metadatas = ConsumedNow(NestedForm(r)).metadatas
          /\ op # "answer_question" => Len(documents) = Len(metadatas)
          /\ op # "get_recommendations" => documents = r.documents
          /\ op = "search_movies" => metadatas = r.metadatas

\* C27 witness: search_movies has been handed a flat result dict of two or more
\* records and has extracted them all.
C27_Witness ==
    /\ pc = "returned" /\ op = "search_movies"
    /\ ~Get(results).nested
    /\ Len(Get(results).documents) >= 2
    /\ documents = Get(results).documents
    /\ Len(metadatas) = Len(documents)

\* Rank i is left out of the result by the filters, not by the cut to n_results.
FilteredOut(i) == i \notin ReturnedRanks /\ ~CutOff(i)

\* The genres field of rank i is there and contains none of the requested genres.
GenreRejects(i) ==
    /\ TruthyList(IntentFilters.genres)
    /\ MetaAt(i).genres # ""
    /\ ~ContainsAny(Get(IntentFilters.genres), MetaAt(i).genres)

\* The year field of rank i is there, parses to a start year and lies outside the
\* requested bounds.
YearRejects(i) ==
    /\ TruthyList(IntentFilters.year_range)
    /\ MetaAt(i).year # ""
    /\ StartYear(MetaAt(i).year) # None
    /\ ~YearSatisfied(Get(IntentFilters.year_range), MetaAt(i).year)

\* C28 (claim as stated): in hybrid_search a candidate is excluded by the genre
\* filter only if its genres field is non-empty and matches no requested term, and
\* by the year filter only if its year field is non-empty, parses to an integer
\* start year and lies outside the bounds.
C28_ExcludedOnlyOnMismatch ==
    HybridAnswered => \A i \in Window : FilteredOut(i) => GenreRejects(i) \/ YearRejects(i)

\* What holds: a candidate whose genres field is empty (or that no genre was
\* requested for) and whose year field is empty or does not parse (or that no year
\* was requested for) is never left out by the filters.
C28_MissingFieldNeverExcludes ==
    HybridAnswered =>
       \A i \in Window :
          (/\ MetaAt(i).genres = "" \/ ~TruthyList(IntentFilters.genres)
           /\ \/ MetaAt(i).year = ""
              \/ StartYear(MetaAt(i).year) = None
              \/ ~TruthyList(IntentFilters.year_range)) => ~FilteredOut(i)

\* The query_type a flow logs in its answered state and in its empty-result answer.
AnsweredKind ==
    IF op = "get_recommendations" THEN "recommendation"
    ELSE IF op = "compare_titles" THEN "comparison"
    ELSE Get(Get(intent_data).type)
EmptyKind ==
    IF op = "get_recommendations" THEN "no_recommendations"
    ELSE IF op = "compare_titles" THEN "no_comparison"
    ELSE "no_results"

\* C29: a call of answer_question, get_recommendations or compare_titles appends
\* exactly one usage-log entry when it ends in its empty-result answer or in its
\* answered state (under the intent type or flow kind, also when the answer is the
\* apology of a failed generation call), and none when it ends in its outer
\* exception handler; no other step of a call touches the log, so no call appends
\* more than one entry.
C29_OneLogEntryPerCall ==
    [][IF pc = "respond" /\ pc' = "returned"
       THEN /\ Len(usage_log') = Len(usage_log) + 1
            /\ IsPrefix(usage_log, usage_log')
            /\ usage_log'[Len(usage_log')].response_length = Len(Get(response'))
            /\ usage_log'[Len(usage_log')].query_type =
                  IF documents = <<>> THEN EmptyKind ELSE AnsweredKind
       ELSE usage_log' = usage_log]_vars

\* C29 witness: get_recommendations has returned the apology of a failed generation
\* call and has logged it as a recommendation, the only entry of the log.
C29_Witness ==
    /\ op = "get_recommendations" /\ pc = "returned"
    /\ GenerationFailed
    /\ response = Some(Apology)
    /\ Len(usage_log) = 1
    /\ usage_log[1] = LogEntry("recommendation", Preferences, Apology)

\* C30: compare_titles issues exactly one similarity query with n_results = 1 per
\* requested title, in the order of the titles list; every turn of the loop adds the
\* top hit of its title's result to the collected documents, or nothing when the
\* query failed or returned nothing, and goes on with the next title, so the
\* documents are at most as many as the titles; the generation call is issued only
\* if at least one document was collected.
C30_CompareTitlesQueries ==
    /\ [](op = "compare_titles" =>
            /\ Len(store_calls) <= Len(Get(titles))
            /\ \A k \in 1..Len(store_calls) :
                   store_calls[k] = [call |-> "query", n |-> 1, text |-> Get(titles)[k]]
            /\ pc \in {"respond", "except", "returned"} =>
                   Len(store_calls) = Len(Get(titles))
            /\ Len(documents) <= Len(store_calls)
            /\ GenerateCalls # {} => documents # <<>>
            /\ (pc = "returned" /\ documents = <<>>) =>
                   response = Some(NoComparisonAnswer))
    /\ [][(pc = "compare" /\ pc' # "blocked") =>
            /\ Len(store_calls') = Len(store_calls) + 1
            /\ documents' = IF Len(Get(results').documents) > 0
                             THEN Append(documents, Get(results').documents[1])
                             ELSE documents
            /\ pc' \in {"compare", "respond"}]_vars

\* C30 witness: compare_titles(["Serenity", "Matrix"]) has returned an answer
\* generated from one document, two queries made and one of them failed.
C30_Witness ==
    /\ op = "compare_titles" /\ pc = "returned"
    /\ titles = Some(<<"Serenity", "Matrix">>)
    /\ Len(store_calls) = 2 /\ store_failed
    /\ Len(documents) = 1
    /\ GenerateCalls # {}

====
